---- MODULE Spec2Model ----
(***************************************************************************)
(* TV show dashboard (streamlit_app.py): the Show Loader                   *)
(* (load_all_show_data behind st.cache_data), the Episode Tracker's filter *)
(* and the Update handler that writes tracking cells back to the sheet.    *)
(*                                                                         *)
(* Cell values are strings.  A cell that gspread hands over as a number is *)
(* the numeral string; Python's None is the token NoneVal.  An optional    *)
(* value (None or a number) is a set with at most one element.             *)
(***************************************************************************)
EXTENDS Integers, Sequences, FiniteSets, TLC

(* ------------------------------ bounds --------------------------------- *)

\* Largest number of worksheets of a store drawn for the loader runs.
MaxSheets == 2

\* Update clicks in one behaviour.
MaxUpdates == 1

\* Largest number of shows in the tables handed to the pages.
MaxShows == 2

\* Seconds added to the cached entry's age by one Tick.
TickStep == 150

(* -------------------------- program constants -------------------------- *)

\* st.cache_data(ttl=300)
TTL == 300

NoneVal == "<None>"

None == {}

Some(x) == {x}

\* The four tracking fields, in the order the Update handler writes them.
TrackingFields == <<"Watched", "Personal Rating", "Favorite", "Watch Date">>

Range(s) == {s[i] : i \in DOMAIN s}

\* list.index(x): zero-based index of the first occurrence.
ListIndex(s, x) == (CHOOSE i \in DOMAIN s : s[i] = x /\ \A j \in 1..(i - 1) : s[j] # x) - 1

(* ------------------------------ coercion ------------------------------- *)

\* Numeric cells and numeric strings, in tenths (pd.to_numeric, float()).
NumTenths ==
  ("0" :> 0) @@ ("1" :> 10) @@ ("2" :> 20) @@ ("3" :> 30) @@ ("5" :> 50) @@
  ("7" :> 70) @@ ("7.5" :> 75) @@ ("8" :> 80) @@ ("8.6" :> 86) @@
  ("9" :> 90) @@ ("9.0" :> 90) @@ ("10" :> 100) @@ ("11" :> 110) @@
  ("45" :> 450) @@ ("60" :> 600) @@ ("42" :> 420)

IsNumeric(v) == v \in DOMAIN NumTenths

\* pd.to_numeric(series, errors='coerce') on one value: NaN is None.
to_numeric(v) == IF IsNumeric(v) THEN Some(NumTenths[v]) ELSE None

\* str(int(n)) for the integers the rating widget can show.
IntStr ==
  (0 :> "0") @@ (1 :> "1") @@ (2 :> "2") @@ (3 :> "3") @@ (4 :> "4") @@
  (5 :> "5") @@ (6 :> "6") @@ (7 :> "7") @@ (8 :> "8") @@ (9 :> "9") @@
  (10 :> "10") @@ (11 :> "11") @@ (45 :> "45") @@ (60 :> "60")

\* Series.str.extract('(\d+)') on one value: the first run of digits of a
\* string, NaN for a value that is not a string (a numeric cell) or holds no
\* digit.
ExtractDigits ==
  ("45 min" :> 45) @@ ("60 min" :> 60) @@ ("1h 30m" :> 1) @@ ("about 50" :> 50)

str_extract(v) == IF v \in DOMAIN ExtractDigits THEN Some(ExtractDigits[v]) ELSE None

\* str(v).upper()
UpperTable ==
  ("Yes" :> "YES") @@ ("yes" :> "YES") @@ ("YES" :> "YES") @@
  ("TRUE" :> "TRUE") @@ ("true" :> "TRUE") @@ ("True" :> "TRUE") @@
  ("No" :> "NO") @@ ("no" :> "NO") @@ ("NO" :> "NO") @@
  ("FALSE" :> "FALSE") @@ ("false" :> "FALSE") @@ ("False" :> "FALSE") @@
  ("In Progress" :> "IN PROGRESS") @@ (NoneVal :> "NONE") @@
  ("maybe" :> "MAYBE") @@ ("N/A" :> "N/A") @@ ("1" :> "1") @@ ("0" :> "0") @@
  ("42" :> "42") @@ ("" :> "")

Upper(v) == IF v \in DOMAIN UpperTable THEN UpperTable[v] ELSE v

\* Sum of the numbers of a sequence of optional numbers (NaN skipped).
RECURSIVE SeqSum(_)
SeqSum(s) ==
  IF s = <<>> THEN 0
  ELSE (IF Head(s) = None THEN 0 ELSE CHOOSE x \in Head(s) : TRUE) + SeqSum(Tail(s))

\* Number of entries of a sequence of optional numbers that are not NaN.
RECURSIVE SeqCount(_)
SeqCount(s) ==
  IF s = <<>> THEN 0
  ELSE (IF Head(s) = None THEN 0 ELSE 1) + SeqCount(Tail(s))

SetMax(S) == CHOOSE x \in S : \A y \in S : y <= x

(* ----------------------------- DataFrames ------------------------------ *)

\* pd.DataFrame(sheet.get_all_records()): one record per data row, keyed
\* by the header; the index label of a row is its zero-based position.
DataFrame(header, rows) ==
  [columns |-> header,
   rows    |-> [i \in DOMAIN rows |->
                  [c \in Range(header) |-> rows[i][ListIndex(header, c) + 1]]]]

\* df[name] = value
SetColumn(df, name, value) ==
  [columns |-> Append(df.columns, name),
   rows    |-> [i \in DOMAIN df.rows |->
                  [c \in DOMAIN df.rows[i] \cup {name} |->
                     IF c = name THEN value ELSE df.rows[i][c]]]]

Column(df, name) == [i \in DOMAIN df.rows |-> df.rows[i][name]]

HasColumn(df, name) == name \in Range(df.columns)

(* ----------------------------- Show Loader ----------------------------- *)

\* df['Season'].nunique() if 'Season' in df.columns else 0
SeasonsNoColumn == 0

\* Always a number in the program; kept as an optional value so that "is
\* None" can be asked of it.
seasons(df) ==
  IF HasColumn(df, "Season")
  THEN Some(Cardinality(Range(Column(df, "Season")) \ {NoneVal}))
  ELSE Some(SeasonsNoColumn)

\* The mean that is 0 when no rating coerces.
average_rating_or_zero(df) ==
  IF HasColumn(df, "Rating")
  THEN LET numeric_ratings == [i \in DOMAIN df.rows |-> to_numeric(df.rows[i]["Rating"])]
       IN IF SeqCount(numeric_ratings) # 0
          THEN Some([sum |-> SeqSum(numeric_ratings), n |-> SeqCount(numeric_ratings)])
          ELSE Some([sum |-> 0, n |-> 1])
  ELSE None

\* The mean with a rating that does not coerce counted as zero.
average_rating_zero_filled(df) ==
  IF HasColumn(df, "Rating")
  THEN LET numeric_ratings == [i \in DOMAIN df.rows |-> to_numeric(df.rows[i]["Rating"])]
       IN Some([sum |-> SeqSum(numeric_ratings), n |-> Len(df.rows)])
  ELSE None

\* The mean of the ratings that coerce, as [sum, n] in tenths; None when the
\* column is missing or nothing coerces.
average_rating(df) ==
  IF HasColumn(df, "Rating")
  THEN LET numeric_ratings == [i \in DOMAIN df.rows |-> to_numeric(df.rows[i]["Rating"])]
       IN IF SeqCount(numeric_ratings) # 0
          THEN Some([sum |-> SeqSum(numeric_ratings), n |-> SeqCount(numeric_ratings)])
          ELSE None
  ELSE None

\* The largest number of minutes found in the Runtime strings; None when the
\* column is missing, is not a string column (.str raises, caught) or holds no
\* digits.
longest_episode(df) ==
  IF HasColumn(df, "Runtime")
  THEN LET runtime_values == UNION {str_extract(df.rows[i]["Runtime"]) : i \in DOMAIN df.rows}
       IN IF runtime_values # {} THEN Some(SetMax(runtime_values)) ELSE None
  ELSE None

Metadata(df) ==
  [title           |-> df.rows[1]["Show Name"],
   total_episodes  |-> Len(df.rows),
   seasons         |-> seasons(df),
   average_rating  |-> average_rating(df),
   longest_episode |-> longest_episode(df)]

\* The default a tracking column gets when the sheet does not have it.
TrackingDefault(name) ==
  CASE name = "Watched"         -> "No"
    [] name = "Personal Rating" -> NoneVal
    [] name = "Favorite"        -> "No"
    [] name = "Watch Date"      -> NoneVal

\* The loader without its check for the Favorite column.
MissingTrackingButFavorite(df) ==
  SelectSeq(TrackingFields, LAMBDA f : ~HasColumn(df, f) /\ f # "Favorite")

\* Tracking columns still to add to a table, in the order the loader adds them.
MissingTracking(df) == SelectSeq(TrackingFields, LAMBDA f : ~HasColumn(df, f))

RECURSIVE AddColumns(_, _)
AddColumns(df, names) ==
  IF names = <<>> THEN df
  ELSE AddColumns(SetColumn(df, Head(names), TrackingDefault(Head(names))), Tail(names))

AddTrackingColumns(df) == AddColumns(df, MissingTracking(df))

\* The header test without its 'Show Name' part.
QualifiesWhenNotEmpty(header_row) == header_row # <<>>

\* if header_row and 'Show Name' in header_row
Qualifies(header_row) == header_row # <<>> /\ "Show Name" \in Range(header_row)

\* A loop that stops at the first sheet that raises.
StopAfterSheetFailure(rest) == <<>>

\* What the loop does after a sheet raised: `continue` with the sheets left.
AfterSheetFailure(rest) == rest

\* One pass of the loop body over the worksheets; fault[title] says where
\* the sheet's API call raises ("header": row_values, "records":
\* get_all_records, "none": nowhere).
RECURSIVE LoadLoop(_, _, _)
LoadLoop(sheets, fault, acc) ==
  IF sheets = <<>> THEN acc
  ELSE
    LET sheet == Head(sheets)
        rest  == Tail(sheets)
        t     == sheet.title
    IN IF fault[t] = "header"
       THEN LoadLoop(AfterSheetFailure(rest), fault,
                     [acc EXCEPT !.warnings = @ \cup {t}])
       ELSE IF ~Qualifies(sheet.header)
       THEN LoadLoop(rest, fault, acc)
       ELSE IF fault[t] = "records"
       THEN LoadLoop(AfterSheetFailure(rest), fault,
                     [acc EXCEPT !.warnings = @ \cup {t}, !.fetched = @ \cup {t}])
       ELSE IF sheet.rows = <<>>
       THEN LoadLoop(rest, fault, [acc EXCEPT !.fetched = @ \cup {t}])
       ELSE LET df == DataFrame(sheet.header, sheet.rows)
            IN LoadLoop(rest, fault,
                 [acc EXCEPT !.fetched = @ \cup {t},
                             !.show_metadata =
                                IF HasColumn(df, "Show Name") THEN @ @@ (t :> Metadata(df)) ELSE @,
                             !.all_shows = @ @@ (t :> AddTrackingColumns(df))])

EmptyMap == [x \in {} |-> x]

EmptyLoad == [all_shows |-> EmptyMap, show_metadata |-> EmptyMap,
              warnings |-> {}, fetched |-> {}]

(* -------------------------------- dates -------------------------------- *)

\* The spelling of the date-like strings of the model, character by character.
Chars ==
  ("03-15-2024" :> <<"0","3","-","1","5","-","2","0","2","4">>) @@
  ("2024-03-15" :> <<"2","0","2","4","-","0","3","-","1","5">>) @@
  ("03/15/2024" :> <<"0","3","/","1","5","/","2","0","2","4">>) @@
  ("01-02-2024" :> <<"0","1","-","0","2","-","2","0","2","4">>) @@
  ("2024-01-02" :> <<"2","0","2","4","-","0","1","-","0","2">>) @@
  ("3/5/2024"   :> <<"3","/","5","/","2","0","2","4">>) @@
  ("03-05-2024" :> <<"0","3","-","0","5","-","2","0","2","4">>) @@
  ("13-01-2024" :> <<"1","3","-","0","1","-","2","0","2","4">>) @@
  ("02-30-2024" :> <<"0","2","-","3","0","-","2","0","2","4">>) @@
  ("11-05-2026" :> <<"1","1","-","0","5","-","2","0","2","6">>) @@
  ("2026-11-05" :> <<"2","0","2","6","-","1","1","-","0","5">>) @@
  ("soon"       :> <<"s","o","o","n">>) @@
  (""           :> <<>>)

DigitValue ==
  ("0" :> 0) @@ ("1" :> 1) @@ ("2" :> 2) @@ ("3" :> 3) @@ ("4" :> 4) @@
  ("5" :> 5) @@ ("6" :> 6) @@ ("7" :> 7) @@ ("8" :> 8) @@ ("9" :> 9)

DigitChar == [n \in 0..9 |-> CHOOSE c \in DOMAIN DigitValue : DigitValue[c] = n]

IsDigit(c) == c \in DOMAIN DigitValue

\* The formats of the read side, in the order they are tried; a directive
\* is "m", "d" or "Y", anything else is a literal character.
DateFormats ==
  << <<"m", "-", "d", "-", "Y">>, <<"Y", "-", "m", "-", "d">>, <<"m", "/", "d", "/", "Y">> >>

StorageFormat == DateFormats[1]

DaysInMonth(y, m) ==
  IF m \in {4, 6, 9, 11} THEN 30
  ELSE IF m # 2 THEN 31
  ELSE IF (y % 4 = 0 /\ y % 100 # 0) \/ y % 400 = 0 THEN 29 ELSE 28

\* One directive matched at the head of cs: [ok, value, rest].  %m and %d
\* take two digits when they form a month or a day and one digit otherwise;
\* %Y takes exactly four digits.
MatchField(d, cs) ==
  LET two == Len(cs) >= 2 /\ IsDigit(cs[1]) /\ IsDigit(cs[2])
      v2  == IF two THEN 10 * DigitValue[cs[1]] + DigitValue[cs[2]] ELSE 0
      one == Len(cs) >= 1 /\ IsDigit(cs[1])
      v1  == IF one THEN DigitValue[cs[1]] ELSE 0
      top == IF d = "m" THEN 12 ELSE 31
      bad == [ok |-> FALSE, value |-> 0, rest |-> <<>>]
  IN IF d = "Y"
     THEN IF Len(cs) >= 4 /\ \A k \in 1..4 : IsDigit(cs[k])
          THEN [ok |-> TRUE,
                value |-> 1000 * DigitValue[cs[1]] + 100 * DigitValue[cs[2]]
                          + 10 * DigitValue[cs[3]] + DigitValue[cs[4]],
                rest |-> SubSeq(cs, 5, Len(cs))]
          ELSE bad
     ELSE IF two /\ v2 >= 1 /\ v2 <= top
          THEN [ok |-> TRUE, value |-> v2, rest |-> SubSeq(cs, 3, Len(cs))]
          ELSE IF one /\ v1 >= 1
          THEN [ok |-> TRUE, value |-> v1, rest |-> SubSeq(cs, 2, Len(cs))]
          ELSE bad

RECURSIVE MatchFormat(_, _, _)
MatchFormat(fmt, cs, acc) ==
  IF fmt = <<>> THEN (IF cs = <<>> THEN Some(acc) ELSE None)
  ELSE IF Head(fmt) \in {"m", "d", "Y"}
       THEN LET r == MatchField(Head(fmt), cs)
            IN IF r.ok
               THEN MatchFormat(Tail(fmt), r.rest, [acc EXCEPT ![Head(fmt)] = r.value])
               ELSE None
       ELSE IF cs # <<>> /\ Head(cs) = Head(fmt)
            THEN MatchFormat(Tail(fmt), Tail(cs), acc)
            ELSE None

\* datetime.strptime(text, fmt).date(): None when it raises.
strptime(text, fmt) ==
  IF text \notin DOMAIN Chars THEN None
  ELSE LET r == MatchFormat(fmt, Chars[text], [Y |-> 0, m |-> 0, d |-> 0])
       IN IF r = None THEN None
          ELSE LET f == CHOOSE x \in r : TRUE
               IN IF f.d <= DaysInMonth(f.Y, f.m) THEN r ELSE None

Pad2(n) == <<DigitChar[n \div 10], DigitChar[n % 10]>>

Pad4(n) == Pad2(n \div 100) \o Pad2(n % 100)

RECURSIVE FormatChars(_, _)
FormatChars(fmt, date) ==
  IF fmt = <<>> THEN <<>>
  ELSE (CASE Head(fmt) = "m" -> Pad2(date.m)
          [] Head(fmt) = "d" -> Pad2(date.d)
          [] Head(fmt) = "Y" -> Pad4(date.Y)
          [] OTHER -> <<Head(fmt)>>) \o FormatChars(Tail(fmt), date)

\* The date written year first, as the second read format has it.
strftime_year_first(date) ==
  CHOOSE text \in DOMAIN Chars : Chars[text] = FormatChars(DateFormats[2], date)

\* new_date.strftime('%m-%d-%Y')
strftime(date) ==
  CHOOSE text \in DOMAIN Chars : Chars[text] = FormatChars(StorageFormat, date)

\* The first format of DateFormats, from position k on, that parses text.
RECURSIVE FirstParse(_, _)
FirstParse(text, k) ==
  IF k > Len(DateFormats) THEN None
  ELSE IF strptime(text, DateFormats[k]) # None THEN strptime(text, DateFormats[k])
  ELSE FirstParse(text, k + 1)

\* datetime.now().date() on the day of the run.
Today == [Y |-> 2026, m |-> 11, d |-> 5]

\* The dates the user picks in the date widget besides its default.
DatePicks == {[Y |-> 2024, m |-> 3, d |-> 15]}

(* --------------------------- Episode Tracker --------------------------- *)

TrueVal == "<True>"

FalseVal == "<False>"

\* The values the Watched filter and the progress counters read as watched.
IsWatched(v) == v = "Yes" \/ Upper(v) \in {"TRUE", "YES", "1"} \/ v = TrueVal

\* Unwatched read as whatever is not watched.
IsUnwatchedAsNotWatched(v) == ~IsWatched(v)

IsUnwatched(v) == v = "No" \/ Upper(v) \in {"FALSE", "NO", "0"} \/ v = FalseVal

\* sorted(df['Season'].unique()) as a set; empty without a Season column.
all_seasons(df) == IF HasColumn(df, "Season") THEN Range(Column(df, "Season")) ELSE {}

WatchStatusOptions == {"All", "Watched", "Unwatched", "In Progress"}

\* The filters with In Progress read as whatever is neither watched nor
\* unwatched.
PassesInProgressAsRest(r, selected_seasons, watch_status, favorites_only) ==
  /\ selected_seasons # {} => r["Season"] \in selected_seasons
  /\ CASE watch_status = "Watched"     -> IsWatched(r["Watched"])
       [] watch_status = "Unwatched"   -> IsUnwatched(r["Watched"])
       [] watch_status = "In Progress" -> ~IsWatched(r["Watched"]) /\ ~IsUnwatched(r["Watched"])
       [] OTHER                        -> TRUE
  /\ favorites_only => r["Favorite"] = "Yes"

\* The filters with the season test applied to an empty selection too.
PassesSeasonAlways(r, selected_seasons, watch_status, favorites_only) ==
  /\ "Season" \in DOMAIN r => r["Season"] \in selected_seasons
  /\ CASE watch_status = "Watched"     -> IsWatched(r["Watched"])
       [] watch_status = "Unwatched"   -> IsUnwatched(r["Watched"])
       [] watch_status = "In Progress" -> r["Watched"] = "In Progress"
       [] OTHER                        -> TRUE
  /\ favorites_only => r["Favorite"] = "Yes"

\* Whether the row with record r passes the three filters.
Passes(r, selected_seasons, watch_status, favorites_only) ==
  /\ selected_seasons # {} => r["Season"] \in selected_seasons
  /\ CASE watch_status = "Watched"     -> IsWatched(r["Watched"])
       [] watch_status = "Unwatched"   -> IsUnwatched(r["Watched"])
       [] watch_status = "In Progress" -> r["Watched"] = "In Progress"
       [] OTHER                        -> TRUE
  /\ favorites_only => r["Favorite"] = "Yes"

\* The index labels (zero-based positions in df) of the rows that pass, in
\* the order of df.
RECURSIVE FilterIndex(_, _, _, _, _)
FilterIndex(df, k, selected_seasons, watch_status, favorites_only) ==
  IF k > Len(df.rows) THEN <<>>
  ELSE (IF Passes(df.rows[k], selected_seasons, watch_status, favorites_only)
        THEN <<k - 1>> ELSE <<>>)
       \o FilterIndex(df, k + 1, selected_seasons, watch_status, favorites_only)

\* (Season, Episode) of index label a sorts strictly after that of b.
SortsAfter(df, a, b) ==
  LET sa == NumTenths[df.rows[a + 1]["Season"]]
      sb == NumTenths[df.rows[b + 1]["Season"]]
      ea == NumTenths[df.rows[a + 1]["Episode"]]
      eb == NumTenths[df.rows[b + 1]["Episode"]]
  IN sa > sb \/ (sa = sb /\ ea > eb)

\* x put in front of the entries with an equal key: a sort that is not
\* stable.
RECURSIVE InsertBeforeEqual(_, _, _)
InsertBeforeEqual(df, s, x) ==
  IF s = <<>> THEN <<x>>
  ELSE IF ~SortsAfter(df, x, Head(s)) THEN <<x>> \o s
  ELSE <<Head(s)>> \o InsertBeforeEqual(df, Tail(s), x)

\* x put into the sorted sequence s after every entry it does not precede.
RECURSIVE InsertSorted(_, _, _)
InsertSorted(df, s, x) ==
  IF s = <<>> THEN <<x>>
  ELSE IF SortsAfter(df, Head(s), x) THEN <<x>> \o s
  ELSE <<Head(s)>> \o InsertSorted(df, Tail(s), x)

RECURSIVE SortIndex(_, _, _)
SortIndex(df, todo, done) ==
  IF todo = <<>> THEN done
  ELSE SortIndex(df, Tail(todo), InsertSorted(df, done, Head(todo)))

\* sort_values(['Season', 'Episode']) compares numbers; a key that is not a
\* number among numbers makes it raise.
Sortable(df, index) ==
  \A k \in DOMAIN index :
    IsNumeric(df.rows[index[k] + 1]["Season"]) /\ IsNumeric(df.rows[index[k] + 1]["Episode"])

\* filtered_df as the sequence of index labels of df, after the sort.
FilteredIndex(df, selected_seasons, watch_status, favorites_only) ==
  LET kept == FilterIndex(df, 1, selected_seasons, watch_status, favorites_only)
  IN IF HasColumn(df, "Season") /\ HasColumn(df, "Episode")
     THEN SortIndex(df, kept, <<>>)
     ELSE kept

(* ----------------------------- the widgets ----------------------------- *)

\* current_status after the normalisation in front of the Watched checkbox.
current_status(r) ==
  LET v == r["Watched"]
  IN IF v = TrueVal THEN "Yes"
     ELSE IF v = FalseVal THEN "No"
     ELSE IF Upper(v) \in {"TRUE", "YES", "1"} THEN "Yes"
     ELSE v

rating_options == <<"", "1", "2", "3", "4", "5", "6", "7", "8", "9", "10">>

\* str(current_rating) after int(float(...)), '' when it is empty or raises.
current_rating(r) ==
  LET v == r["Personal Rating"]
  IN IF v # NoneVal /\ v # "" /\ IsNumeric(v) THEN IntStr[NumTenths[v] \div 10] ELSE ""

\* The option the rating dropdown shows before the user touches it.
default_rating(r) ==
  IF current_rating(r) \in Range(rating_options) THEN current_rating(r) ELSE rating_options[1]

\* The ratings the user picks in the dropdown besides its default.
RatingPicks == {"7"}

default_favorite(r) == r["Favorite"] = "Yes"

\* default_date of the date widget: the stored date when it parses under
\* one of DateFormats, today otherwise.
default_date(r) ==
  LET v == r["Watch Date"]
  IN IF v # NoneVal /\ v # "" /\ FirstParse(v, 1) # None
     THEN CHOOSE x \in FirstParse(v, 1) : TRUE
     ELSE Today

(* ------------------------------- Update -------------------------------- *)

\* sheet_row = idx + 2, idx the row's index label and i its place in the
\* enumeration of filtered_df (both zero-based).
SheetRowByViewPosition(idx, i) == i + 2

SheetRow(idx, i) == idx + 2

\* header_row.index(name) + 1 if name in header_row else None
ColumnIndexZeroBased(header_row, name) ==
  IF name \in Range(header_row) THEN Some(ListIndex(header_row, name)) ELSE None

ColumnOf(header_row, name) ==
  IF name \in Range(header_row) THEN Some(ListIndex(header_row, name) + 1) ELSE None

\* The handler without its write of the date.
WritePlanWithoutDate(header_row, new_status, new_rating, new_favorite, show_date, formatted_date) ==
  LET want == << [field |-> "Watched", value |-> new_status],
                 [field |-> "Personal Rating", value |-> new_rating],
                 [field |-> "Favorite", value |-> IF new_favorite THEN "Yes" ELSE "No"] >>
      kept == SelectSeq(want, LAMBDA w : ColumnOf(header_row, w.field) # None)
  IN [k \in DOMAIN kept |->
        [field |-> kept[k].field,
         col   |-> CHOOSE c \in ColumnOf(header_row, kept[k].field) : TRUE,
         value |-> kept[k].value]]

\* The cell writes of one Update, in the order the handler issues them:
\* a field whose column is absent is left out, the date also when the date
\* widget is not shown.
WritePlan(header_row, new_status, new_rating, new_favorite, show_date, formatted_date) ==
  LET want == << [field |-> "Watched", value |-> new_status, on |-> TRUE],
                 [field |-> "Personal Rating", value |-> new_rating, on |-> TRUE],
                 [field |-> "Favorite", value |-> IF new_favorite THEN "Yes" ELSE "No", on |-> TRUE],
                 [field |-> "Watch Date", value |-> formatted_date, on |-> show_date] >>
      kept == SelectSeq(want, LAMBDA w : ColumnOf(header_row, w.field) # None /\ w.on)
  IN [k \in DOMAIN kept |->
        [field |-> kept[k].field,
         col   |-> CHOOSE c \in ColumnOf(header_row, kept[k].field) : TRUE,
         value |-> kept[k].value]]

\* sheet.update_cell(row, col, value) on one worksheet.
update_cell(sheet, row, col, value) ==
  [sheet EXCEPT !.rows[row - 1][col] = value]

\* The first n writes of plan applied to the worksheet, all in row sheet_row.
RECURSIVE ApplyWrites(_, _, _, _)
ApplyWrites(sheet, sheet_row, plan, n) ==
  IF n = 0 THEN sheet
  ELSE LET w == plan[n]
       IN update_cell(ApplyWrites(sheet, sheet_row, plan, n - 1), sheet_row, w.col, w.value)

\* load_all_show_data.clear() runs after the success message only.
CacheKeptAfterUpdate(succeeded, entry) == entry

CacheAfterUpdate(succeeded, entry) == IF succeeded THEN None ELSE entry

(* ------------------------------ the pages ------------------------------ *)

\* A number kept as the fraction num/den.
Fraction(num, den) == [num |-> num, den |-> den]

\* The progress counter with the strict test of the literal 'Yes' only.
CountsAsWatchedStrict(watched) == watched = "Yes"

\* watched == 'Yes' or str(watched).upper() in ['TRUE', 'YES', '1'] or
\* watched is True
CountsAsWatched(watched) ==
  watched = "Yes" \/ Upper(watched) \in {"TRUE", "YES", "1"} \/ watched = TrueVal

\* watched_count, in_progress, total_count and progress_pct over the rows
\* of a table; progress_pct is 0 when there is no row.
watch_progress(rows) ==
  LET watched_count == Cardinality({i \in DOMAIN rows : CountsAsWatched(rows[i]["Watched"])})
      in_progress   == Cardinality({i \in DOMAIN rows : rows[i]["Watched"] = "In Progress"})
      total_count   == Len(rows)
  IN [watched_count |-> watched_count,
      in_progress   |-> in_progress,
      total_count   |-> total_count,
      progress_pct  |-> IF total_count > 0
                        THEN Fraction(watched_count * 100, total_count)
                        ELSE Fraction(0, 1)]

\* The rows of df with the index labels of index, in that order.
RowsAt(df, index) == [k \in DOMAIN index |-> df.rows[index[k] + 1]]

\* safe_numeric_mean(series): None for an empty series or one in which
\* nothing coerces, the mean of what coerces otherwise.
safe_numeric_mean(series) ==
  IF series = <<>> THEN None
  ELSE LET numeric_values == [i \in DOMAIN series |-> to_numeric(series[i])]
       IN IF SeqCount(numeric_values) # 0
          THEN Some(Fraction(SeqSum(numeric_values), SeqCount(numeric_values)))
          ELSE None

\* df.groupby('Season')['Numeric_Rating'].mean(): one entry per Season
\* value of the table (a None key is dropped), the mean of the group's ratings
\* that coerce, NaN (None) for a group in which none does.
season_ratings(df) ==
  [season \in Range(Column(df, "Season")) \ {NoneVal} |->
     LET group == SelectSeq(df.rows, LAMBDA r : r["Season"] = season)
         numeric_rating == [i \in DOMAIN group |-> to_numeric(group[i]["Rating"])]
     IN IF SeqCount(numeric_rating) # 0
        THEN Some(Fraction(SeqSum(numeric_rating), SeqCount(numeric_rating)))
        ELSE None]

\* 'Rating' in df.columns and 'Season' in df.columns, and some rating coerces.
HasSeasonRatings(df) ==
  /\ HasColumn(df, "Rating")
  /\ HasColumn(df, "Season")
  /\ \E i \in DOMAIN df.rows : to_numeric(df.rows[i]["Rating"]) # None

\* df['Watch Date'].notna().any() and (df['Watch Date'] != '').any()
has_watch_dates(shows_) ==
  \E t \in DOMAIN shows_ :
    /\ HasColumn(shows_[t], "Watch Date")
    /\ \E i \in DOMAIN shows_[t].rows : shows_[t].rows[i]["Watch Date"] # NoneVal
    /\ \E i \in DOMAIN shows_[t].rows : shows_[t].rows[i]["Watch Date"] # ""

\* all_watch_dates: for every show with a Watch Date column and every value
\* of it that is not None and not blank, the date of the first format that
\* parses it; each date with the record it was read from.
all_watch_dates(shows_) ==
  {[show |-> t, idx |-> i - 1,
    date |-> CHOOSE x \in FirstParse(shows_[t].rows[i]["Watch Date"], 1) : TRUE] :
     <<t, i>> \in {<<u, j>> \in UNION {{u} \X DOMAIN shows_[u].rows : u \in DOMAIN shows_} :
                     /\ HasColumn(shows_[u], "Watch Date")
                     /\ shows_[u].rows[j]["Watch Date"] \notin {NoneVal, ""}
                     /\ FirstParse(shows_[u].rows[j]["Watch Date"], 1) # None}}

\* date.weekday() counted from Sunday = 0.
weekday(date) ==
  LET t == <<0, 3, 2, 5, 0, 3, 5, 1, 4, 6, 2, 4>>
      y == IF date.m < 3 THEN date.Y - 1 ELSE date.Y
  IN (y + y \div 4 - y \div 100 + y \div 400 + t[date.m] + date.d) % 7

\* .dt.day_name()
day_name(date) ==
  <<"Sunday", "Monday", "Tuesday", "Wednesday", "Thursday", "Friday", "Saturday">>[weekday(date) + 1]

days_ordered ==
  <<"Monday", "Tuesday", "Wednesday", "Thursday", "Friday", "Saturday", "Sunday">>

months_ordered ==
  <<"January", "February", "March", "April", "May", "June", "July", "August",
    "September", "October", "November", "December">>

\* .dt.month_name()
month_name(date) == months_ordered[date.m]

\* Series.value_counts() of a column of watch_df, a value per date: the
\* values that occur, each with its count.
value_counts(column) ==
  [v \in {column[e] : e \in DOMAIN column} |->
     Cardinality({e \in DOMAIN column : column[e] = v})]

\* counts.get(key, 0)
CountOf(counts, key) == IF key \in DOMAIN counts THEN counts[key] ELSE 0

\* A histogram over the names that occur only.
HistogramOfPresent(counts, ordered) ==
  LET present == SelectSeq(ordered, LAMBDA n : n \in DOMAIN counts)
  IN [k \in DOMAIN present |-> [name |-> present[k], count |-> counts[present[k]]]]

\* day_data, month_data: one entry per name of the ordered list, 0 for a
\* name without a count.
Histogram(counts, ordered) ==
  [k \in DOMAIN ordered |-> [name |-> ordered[k], count |-> CountOf(counts, ordered[k])]]

(* ------------------------------ the store ------------------------------ *)

\* Worksheet contents: a header row and the data rows under it.
BreakingBad ==
  [header |-> <<"Show Name", "Season", "Episode", "Episode Title", "Rating">>,
   rows   |-> << <<"Breaking Bad", "1", "1", "Pilot", "9.0">>,
                 <<"Breaking Bad", "1", "2", "Cat's in the Bag...", "8.6">> >>]

\* The same episodes on a sheet that has a Watched and a Watch Date column.
BreakingBadTracked ==
  [header |-> <<"Show Name", "Season", "Episode", "Episode Title", "Rating",
                "Watched", "Watch Date">>,
   rows   |-> << <<"Breaking Bad", "1", "1", "Pilot", "9.0", "Yes", "01-02-2024">>,
                 <<"Breaking Bad", "1", "2", "Cat's in the Bag...", "8.6", "No", "">> >>]

\* Tracking columns between other columns, one of them missing, a column
\* the user added, rows not in (Season, Episode) order.
Lost ==
  [header |-> <<"Show Name", "Notes", "Favorite", "Season", "Episode",
                "Episode Title", "Watched", "Rating", "Watch Date">>,
   rows   |-> << <<"Lost", "rewatch", "TRUE", "2", "1", "Man of Science", "In Progress", "8", "">>,
                 <<"Lost", "", "Yes", "1", "2", "Tabula Rasa", "TRUE", "", "2024-03-15">>,
                 <<"Lost", "", "No", "1", "1", "Pilot", "No", "N/A", "soon">> >>]

\* All four tracking columns, no Season column.
TheWire ==
  [header |-> <<"Episode Title", "Show Name", "Watched", "Personal Rating",
                "Favorite", "Watch Date", "Runtime">>,
   rows   |-> << <<"The Target", "The Wire", "Yes", "7.5", "No", "03/15/2024", "60 min">>,
                 <<"The Detail", "The Wire", "No", "", "Yes", "", "about 50">> >>]

EmptySheet == [header |-> <<>>, rows |-> <<>>]

\* A sheet of the same spreadsheet that is no episode table.
Budget ==
  [header |-> <<"Item", "Cost">>,
   rows   |-> << <<"Streaming", "11">> >>]

HeaderOnly ==
  [header |-> <<"Show Name", "Season", "Episode", "Rating">>, rows |-> <<>>]

\* Season, Rating and Runtime columns with nothing that coerces.
Blank ==
  [header |-> <<"Show Name", "Season", "Rating", "Runtime", "Watched">>,
   rows   |-> << <<"Blank", "", "", "", "yes">>,
                 <<"Blank", "", "N/A", "N/A", "In Progress">> >>]

\* Numeric Runtime cells only, ratings partly empty, no Season column.
Numbers ==
  [header |-> <<"Show Name", "Rating", "Runtime", "Favorite">>,
   rows   |-> << <<"Numbers", "8", "45", "Yes">>,
                 <<"Numbers", "", "60", "No">>,
                 <<"Numbers", "9", "45", "No">> >>]

Mixed ==
  [header |-> <<"Season", "Show Name", "Runtime", "Personal Rating", "Watch Date">>,
   rows   |-> << <<"1", "Mixed", "1h 30m", "11", "01-02-2024">>,
                 <<"2", "Mixed", "45", "3", "13-01-2024">> >>]

\* A Rating column of empty cells only.
Unrated ==
  [header |-> <<"Show Name", "Season", "Episode", "Rating">>,
   rows   |-> << <<"Unrated", "1", "1", "">>,
                 <<"Unrated", "1", "2", "">> >>]

SheetContents ==
  {BreakingBad, Lost, TheWire, EmptySheet, Budget, HeaderOnly, Blank, Numbers, Mixed, Unrated}

\* Watched in every spelling the pages tell apart: truthy and falsy
\* strings, booleans, numbers, the In Progress literal, empty, None, other.
Flags ==
  [header |-> <<"Show Name", "Episode Title", "Watched">>,
   rows   |-> << <<"Flags", "a", "Yes">>, <<"Flags", "b", "YES">>, <<"Flags", "c", "true">>,
                 <<"Flags", "d", TrueVal>>, <<"Flags", "e", "1">>, <<"Flags", "f", "TRUE">>,
                 <<"Flags", "g", "No">>, <<"Flags", "h", "FALSE">>, <<"Flags", "i", FalseVal>>,
                 <<"Flags", "j", "0">>, <<"Flags", "k", "In Progress">>, <<"Flags", "l", "">>,
                 <<"Flags", "m", NoneVal>>, <<"Flags", "n", "42">>, <<"Flags", "o", "maybe">> >>]

\* Episodes listed twice, out of order, with a two-digit season and dates in
\* single-digit and impossible spellings.
Dups ==
  [header |-> <<"Show Name", "Season", "Episode", "Episode Title", "Rating", "Watched",
                "Favorite", "Watch Date">>,
   rows   |-> << <<"Dups", "2", "1", "b", "7", "Yes", "Yes", "3/5/2024">>,
                 <<"Dups", "10", "1", "c", "", "In Progress", "No", "02-30-2024">>,
                 <<"Dups", "1", "2", "a", "8", "No", "Yes", "">>,
                 <<"Dups", "2", "1", "b again", "9", "TRUE", "No", "11-05-2026">>,
                 <<"Dups", "1", "2", "a again", "N/A", "0", "Yes", "03-05-2024">> >>]

\* Worksheet titles, by place in the spreadsheet.
Titles == <<"Sheet1", "Sheet2", "Sheet3", "Sheet4">>

Named(title, content) == [title |-> title, header |-> content.header, rows |-> content.rows]

Worksheet(k, content) == Named(Titles[k], content)

\* The spreadsheets of n worksheets.
Spreadsheets(n) ==
  {[k \in 1..n |-> Worksheet(k, f[k])] : f \in [1..n -> SheetContents]}

\* The spreadsheets the loader runs start from.
LoaderStores == UNION {Spreadsheets(n) : n \in 0..MaxSheets}

\* The spreadsheets the tracker runs start from.
TrackerStores ==
  { <<Named("Lost", Lost)>>,
    <<Named("Breaking Bad", BreakingBad), Named("The Wire", TheWire)>>,
    <<Named("Breaking Bad", BreakingBadTracked)>> }

\* The table the loader makes of a worksheet's header and records.
LoadedTable(sheet) == AddTrackingColumns(DataFrame(sheet.header, sheet.rows))

\* The worksheets whose tables the pages are handed; the one without rows
\* stands for an empty table.
PageSheets ==
  {Named("Lost", Lost), Named("The Wire", TheWire), Named("Breaking Bad", BreakingBadTracked),
   Named("Blank", Blank), Named("Numbers", Numbers), Named("Mixed", Mixed),
   Named("Flags", Flags), Named("Dups", Dups), Named("Unrated", Unrated),
   Named("Empty", HeaderOnly)}

\* The shows mappings the pages are handed: up to MaxShows tables.
PageInputs ==
  {[t \in {sh.title : sh \in S} |-> LoadedTable(CHOOSE sh \in S : sh.title = t)] :
     S \in {T \in SUBSET PageSheets : Cardinality(T) \in 1..MaxShows}}

SheetNamed(store, title) == store[CHOOSE k \in DOMAIN store : store[k].title = title]

TitlesOf(store) == {store[k].title : k \in DOMAIN store}

(* ------------------------------ the state ------------------------------ *)

VARIABLES
  spreadsheet,   \* the backing store: the worksheets of "My Favorite TV Shows"
  connection,    \* what st.cache_resource holds for connect_sheets: "unset", "ok", "none"
  cache,         \* what st.cache_data holds for load_all_show_data: None or Some(result)
  cacheAge,      \* seconds since the cached entry was stored
  pc,            \* place in the script run: "idle", "loaded", "tracked"
  shows,         \* main's shows of this run
  metadata,      \* main's metadata of this run
  run,           \* the load_all_show_data call of this run
  view,          \* the tracker of this run: the selected show and filtered_df
  upd,           \* the last Update click
  nUpdates,      \* Update clicks so far
  page           \* what the page of this run computed from shows

vars == <<spreadsheet, connection, cache, cacheAge, pc, shows, metadata, run, view, upd, nUpdates,
          page>>

NoRun == [outcome |-> "none", executed |-> FALSE, warnings |-> {}, fetched |-> {}, failed |-> {},
          afterWrite |-> FALSE]

\* The Update before this run succeeded and wrote a cell.
AfterWrite == upd.done /\ ~upd.failed /\ upd.nWritten > 0

NoView == [show |-> "", index |-> <<>>, selected_seasons |-> {}, watch_status |-> "All",
           favorites_only |-> FALSE]

NoUpdate ==
  [done |-> FALSE, show |-> "", pos |-> 0, idx |-> 0, shown |-> EmptyMap, sheet_row |-> 0,
   header_row |-> <<>>, changed |-> {}, plan |-> <<>>, attempted |-> 0, nWritten |-> 0,
   failed |-> FALSE,
   reported |-> None]

NoPage ==
  [name |-> "none", show |-> "", progress |-> EmptyMap, rollup |-> EmptyMap,
   has_watch_dates |-> FALSE, all_watch_dates |-> {}, day_data |-> <<>>, month_data |-> <<>>]

InitOn(stores) ==
  /\ spreadsheet \in stores
  /\ connection = "unset"
  /\ cache = None
  /\ cacheAge = 0
  /\ pc = "idle"
  /\ shows = EmptyMap
  /\ metadata = EmptyMap
  /\ run = NoRun
  /\ view = NoView
  /\ upd = NoUpdate
  /\ nUpdates = 0
  /\ page = NoPage

Init == InitOn(TrackerStores)

InitLoad == InitOn(LoaderStores)

\* main after load_all_show_data handed it the tables of one of PageInputs.
InitPages ==
  /\ spreadsheet = <<>>
  /\ connection = "ok"
  /\ cache = None
  /\ cacheAge = 0
  /\ pc = "loaded"
  /\ shows \in PageInputs
  /\ metadata = EmptyMap
  /\ run = [NoRun EXCEPT !.outcome = "returned"]
  /\ view = NoView
  /\ upd = NoUpdate
  /\ nUpdates = 0
  /\ page = NoPage

(* -------------------------- load_all_show_data ------------------------- *)

\* Where the API calls of one load raise: per title "none", "header" or
\* "records", the last only for a sheet whose records are asked for.
Faults(store) ==
  {f \in [TitlesOf(store) -> {"none", "header", "records"}] :
     \A k \in DOMAIN store : f[store[k].title] = "records" => Qualifies(store[k].header)}

\* main's call served from st.cache_data within the entry's lifetime.
LoadCached ==
  /\ pc = "idle"
  /\ cache # None
  /\ cacheAge < TTL
  /\ LET entry == CHOOSE e \in cache : TRUE
     IN /\ shows' = entry.all_shows
        /\ metadata' = entry.show_metadata
  /\ run' = [NoRun EXCEPT !.outcome = "returned", !.afterWrite = AfterWrite]
  /\ pc' = "loaded"
  /\ view' = NoView
  /\ upd' = NoUpdate
  /\ page' = NoPage
  /\ UNCHANGED <<spreadsheet, connection, cache, cacheAge, nUpdates>>

\* main's call running the function body: connect_sheets gave None.
LoadNoConnection ==
  /\ pc = "idle"
  /\ cache = None \/ cacheAge >= TTL
  /\ connection \in {"unset", "none"}
  /\ connection' = "none"
  /\ shows' = EmptyMap
  /\ metadata' = EmptyMap
  /\ cache' = Some([all_shows |-> EmptyMap, show_metadata |-> EmptyMap])
  /\ cacheAge' = 0
  /\ run' = [NoRun EXCEPT !.outcome = "returned", !.executed = TRUE, !.afterWrite = AfterWrite]
  /\ pc' = "loaded"
  /\ view' = NoView
  /\ upd' = NoUpdate
  /\ page' = NoPage
  /\ UNCHANGED <<spreadsheet, nUpdates>>

\* main's call running the function body: spreadsheet.worksheets() raises,
\* outside every try of the function, and the run ends with the exception.
LoadEnumerateRaises ==
  /\ pc = "idle"
  /\ cache = None \/ cacheAge >= TTL
  /\ connection \in {"unset", "ok"}
  /\ connection' = "ok"
  /\ shows' = EmptyMap
  /\ metadata' = EmptyMap
  /\ cache' = None
  /\ cacheAge' = 0
  /\ run' = [NoRun EXCEPT !.outcome = "raised", !.executed = TRUE, !.afterWrite = AfterWrite]
  /\ pc' = "idle"
  /\ view' = NoView
  /\ upd' = NoUpdate
  /\ page' = NoPage
  /\ UNCHANGED <<spreadsheet, nUpdates>>

\* main's call running the function body over the worksheets.
LoadExecute ==
  /\ pc = "idle"
  /\ cache = None \/ cacheAge >= TTL
  /\ connection \in {"unset", "ok"}
  /\ connection' = "ok"
  /\ \E fault \in Faults(spreadsheet) :
       \E got \in {LoadLoop(spreadsheet, fault, EmptyLoad)} :
          /\ shows' = got.all_shows
          /\ metadata' = got.show_metadata
          /\ cache' = Some([all_shows |-> got.all_shows, show_metadata |-> got.show_metadata])
          /\ run' = [outcome |-> "returned", executed |-> TRUE, warnings |-> got.warnings,
                     fetched |-> got.fetched,
                     failed |-> {t \in TitlesOf(spreadsheet) : fault[t] # "none"},
                     afterWrite |-> AfterWrite]
  /\ cacheAge' = 0
  /\ pc' = "loaded"
  /\ view' = NoView
  /\ upd' = NoUpdate
  /\ page' = NoPage
  /\ UNCHANGED <<spreadsheet, nUpdates>>

Load == LoadCached \/ LoadNoConnection \/ LoadEnumerateRaises \/ LoadExecute

\* Time passes between two script runs.
Tick ==
  /\ pc = "idle"
  /\ cache # None
  /\ cacheAge < TTL
  /\ cacheAge' = IF cacheAge + TickStep < TTL THEN cacheAge + TickStep ELSE TTL
  /\ UNCHANGED <<spreadsheet, connection, cache, pc, shows, metadata, run, view, upd, nUpdates, page>>

\* The script run ends without an Update click.
EndRun ==
  /\ pc \in {"loaded", "tracked", "shown"}
  /\ pc' = "idle"
  /\ shows' = EmptyMap
  /\ metadata' = EmptyMap
  /\ run' = NoRun
  /\ view' = NoView
  /\ page' = NoPage
  /\ UNCHANGED <<spreadsheet, connection, cache, cacheAge, upd, nUpdates>>

(* ----------------------- display_episode_tracker ----------------------- *)

\* The tracker page rendered: a show selected, the filters set, filtered_df
\* computed and, when it has a row, the progress metrics over it.
Track ==
  /\ pc = "loaded"
  /\ \E selected_show \in DOMAIN shows :
       \E df \in {shows[selected_show]} :
          \E selected_seasons \in SUBSET all_seasons(df), watch_status \in WatchStatusOptions,
             favorites_only \in BOOLEAN :
            \E kept \in {FilterIndex(df, 1, selected_seasons, watch_status, favorites_only)} :
               /\ (HasColumn(df, "Season") /\ HasColumn(df, "Episode")) => Sortable(df, kept)
               /\ view' = [show |-> selected_show,
                           index |-> FilteredIndex(df, selected_seasons, watch_status, favorites_only),
                           selected_seasons |-> selected_seasons,
                           watch_status |-> watch_status,
                           favorites_only |-> favorites_only]
               /\ page' = [NoPage EXCEPT
                             !.name = "tracker",
                             !.show = selected_show,
                             !.progress =
                                IF kept # <<>>
                                THEN selected_show :> watch_progress(RowsAt(df, kept))
                                ELSE EmptyMap]
  /\ pc' = "tracked"
  /\ UNCHANGED <<spreadsheet, connection, cache, cacheAge, shows, metadata, run, upd, nUpdates>>

\* The Update button of the episode at place i of filtered_df, with the
\* widgets as the user left them; fail = 0: every call succeeds, fail = k:
\* the k-th update_cell raises, fail = Len(plan) + 1: worksheet() or
\* row_values(1) raises before any write.
Update ==
  /\ pc = "tracked"
  /\ nUpdates < MaxUpdates
  /\ \E i \in DOMAIN view.index :
       \E idx \in {view.index[i]}, sheet \in {SheetNamed(spreadsheet, view.show)} :
       \E row \in {shows[view.show].rows[idx + 1]}, header_row \in {sheet.header},
          sheet_row \in {SheetRow(idx, i - 1)} :
          \E checked \in BOOLEAN, new_rating \in {default_rating(row)} \cup RatingPicks,
             new_favorite \in BOOLEAN :
            LET new_status == IF checked THEN "Yes" ELSE "No"
                show_date == new_status = "Yes" \/ current_status(row) = "Yes"
            IN \E new_date \in {default_date(row)} \cup (IF show_date THEN DatePicks ELSE {}) :
                 \E formatted_date \in {IF show_date THEN strftime(new_date) ELSE row["Watch Date"]} :
                 \E plan \in {WritePlan(header_row, new_status, new_rating, new_favorite,
                                        show_date, formatted_date)} :
                    \E fail \in 0..(Len(plan) + 1) :
                      LET succeeded == fail = 0
                          nWritten == IF fail = 0 THEN Len(plan)
                                      ELSE IF fail = Len(plan) + 1 THEN 0 ELSE fail - 1
                          updates == [k \in 1..nWritten |-> plan[k].field]
                      IN /\ spreadsheet' =
                              [k \in DOMAIN spreadsheet |->
                                 IF spreadsheet[k].title = view.show
                                 THEN ApplyWrites(sheet, sheet_row, plan, nWritten)
                                 ELSE spreadsheet[k]]
                         /\ cache' = CacheAfterUpdate(succeeded, cache)
                         /\ cacheAge' = IF cache' = None THEN 0 ELSE cacheAge
                         /\ upd' = [done |-> TRUE, show |-> view.show, pos |-> i - 1, idx |-> idx,
                                    shown |-> row, sheet_row |-> sheet_row,
                                    header_row |-> header_row,
                                    changed |->
                                      {f \in Range(TrackingFields) :
                                         \/ f = "Watched" /\ checked # (current_status(row) = "Yes")
                                         \/ f = "Personal Rating" /\ new_rating # default_rating(row)
                                         \/ f = "Favorite" /\ new_favorite # default_favorite(row)
                                         \/ f = "Watch Date" /\ new_date # default_date(row)},
                                    plan |-> plan,
                                    attempted |-> IF fail = 0 THEN Len(plan)
                                                  ELSE IF fail = Len(plan) + 1 THEN 0 ELSE fail,
                                    nWritten |-> nWritten, failed |-> ~succeeded,
                                    reported |-> IF succeeded THEN Some(updates) ELSE None]
  /\ nUpdates' = nUpdates + 1
  /\ pc' = "idle"
  /\ shows' = EmptyMap
  /\ metadata' = EmptyMap
  /\ run' = NoRun
  /\ view' = NoView
  /\ page' = NoPage
  /\ UNCHANGED connection

(* ------------------------- the pages of main --------------------------- *)

\* display_overview: the watching progress of every show.
Overview ==
  /\ pc = "loaded"
  /\ shows # EmptyMap
  /\ page' = [NoPage EXCEPT
                !.name = "overview",
                !.progress = [t \in {u \in DOMAIN shows : HasColumn(shows[u], "Watched")} |->
                                watch_progress(shows[t].rows)]]
  /\ pc' = "shown"
  /\ UNCHANGED <<spreadsheet, connection, cache, cacheAge, shows, metadata, run, view, upd, nUpdates>>

\* display_show_details: the Season Ratings tab of the selected show.
ShowDetails ==
  /\ pc = "loaded"
  /\ \E selected_show \in DOMAIN shows :
       \E df \in {shows[selected_show]} :
          page' = [NoPage EXCEPT
                     !.name = "details",
                     !.show = selected_show,
                     !.rollup = IF HasSeasonRatings(df)
                                THEN selected_show :> season_ratings(df)
                                ELSE EmptyMap]
  /\ pc' = "shown"
  /\ UNCHANGED <<spreadsheet, connection, cache, cacheAge, shows, metadata, run, view, upd, nUpdates>>

\* display_analysis: the season comparison of the Rating Comparisons tab and
\* the Viewing Patterns tab; the histograms are built when a date parsed.
Analysis ==
  /\ pc = "loaded"
  /\ shows # EmptyMap
  /\ \E found \in {has_watch_dates(shows)} :
       \E dates \in {IF found THEN all_watch_dates(shows) ELSE {}} :
         page' = [NoPage EXCEPT
                    !.name = "analysis",
                    !.rollup = [t \in {u \in DOMAIN shows : HasSeasonRatings(shows[u])} |->
                                  season_ratings(shows[t])],
                    !.has_watch_dates = found,
                    !.all_watch_dates = dates,
                    !.day_data = IF dates # {}
                                 THEN Histogram(value_counts([e \in dates |-> day_name(e.date)]), days_ordered)
                                 ELSE <<>>,
                    !.month_data = IF dates # {}
                                   THEN Histogram(value_counts([e \in dates |-> month_name(e.date)]),
                                                  months_ordered)
                                   ELSE <<>>]
  /\ pc' = "shown"
  /\ UNCHANGED <<spreadsheet, connection, cache, cacheAge, shows, metadata, run, view, upd, nUpdates>>

Next == Load \/ Tick \/ EndRun \/ Track \/ Update

Spec == Init /\ [][Next]_vars

NextLoad == Load \/ Tick \/ EndRun

SpecLoad == InitLoad /\ [][NextLoad]_vars

NextPages == Overview \/ ShowDetails \/ Track \/ Analysis \/ EndRun

SpecPages == InitPages /\ [][NextPages]_vars

(* ------------------------------ the claims ----------------------------- *)

\* The worksheet of the last Update, as the store holds it.
UpdatedSheet == SheetNamed(spreadsheet, upd.show)

\* The cell of the store at a one-based row and column of a worksheet.
Cell(sheet, row, col) == sheet.rows[row - 1][col]

\* C1: an Update targets the store row that is the shown episode's
\* zero-based position in the table as loaded plus 2, whatever the filters
\* and the sort made of the view: the targeted row number is the index label
\* plus 2, it is a data row of the sheet, and that store row holds the shown
\* episode in every column that is no tracking field.
C1_UpdateTargetsLoadedPosition ==
  upd.done =>
    /\ upd.sheet_row = upd.idx + 2
    /\ upd.sheet_row - 1 \in DOMAIN UpdatedSheet.rows
    /\ \A c \in DOMAIN upd.header_row :
         upd.header_row[c] \notin Range(TrackingFields)
           => Cell(UpdatedSheet, upd.sheet_row, c) = upd.shown[upd.header_row[c]]

\* C1 witness: an Update that wrote a cell for an episode whose place in the
\* filtered and sorted view is not its position in the loaded table.
C1_Witness ==
  upd.done /\ upd.nWritten > 0 /\ upd.pos # upd.idx /\ upd.sheet_row # upd.pos + 2

\* The columns of the tracking fields the user changed in the last Update.
ChangedColumns(u) == {c \in DOMAIN u.header_row : u.header_row[c] \in u.changed}

\* C2: an Update changes no store cell besides those of the episode's row
\* under the columns of the tracking fields the user changed; a tracking
\* field left alone keeps its stored value.
C2_OnlyChangedFieldsWritten ==
  [][(pc = "tracked" /\ upd'.done) =>
       \A k \in DOMAIN spreadsheet :
         \A r \in DOMAIN spreadsheet[k].rows :
           \A c \in DOMAIN spreadsheet[k].rows[r] :
             ~(/\ spreadsheet[k].title = upd'.show
               /\ r = upd'.idx + 1
               /\ c \in ChangedColumns(upd'))
               => spreadsheet'[k].rows[r][c] = spreadsheet[k].rows[r][c]]_vars

\* C3: each cell written by an Update lies in the column whose header cell,
\* read at write time, is the first to hold the field's name (index + 1),
\* and holds the written value; a field whose name is not in the header is
\* not written; the applied fields reported on success are exactly the
\* fields whose cell was written, in the order written.
C3_ColumnsByHeaderLookup ==
  upd.done =>
    /\ upd.header_row = UpdatedSheet.header
    /\ \A k \in 1..upd.nWritten :
         LET w == upd.plan[k]
         IN /\ w.col \in DOMAIN upd.header_row
            /\ upd.header_row[w.col] = w.field
            /\ \A j \in 1..(w.col - 1) : upd.header_row[j] # w.field
            /\ upd.sheet_row - 1 \in DOMAIN UpdatedSheet.rows
            /\ Cell(UpdatedSheet, upd.sheet_row, w.col) = w.value
    /\ \A k \in DOMAIN upd.plan : upd.plan[k].field \in Range(upd.header_row)
    /\ upd.reported # None =>
         /\ upd.nWritten = Len(upd.plan)
         /\ upd.reported = Some([k \in 1..upd.nWritten |-> upd.plan[k].field])
         /\ \A f \in Range(TrackingFields) \ {"Watch Date"} :
              f \in Range(upd.header_row) <=> \E k \in 1..upd.nWritten : upd.plan[k].field = f

\* C3 witness: a successful Update on a sheet with a column the user added
\* in front of the tracking columns and with a tracking column missing,
\* which wrote a cell in a column that is not the field's place in
\* TrackingFields.
C3_Witness ==
  /\ upd.done
  /\ upd.reported # None
  /\ upd.nWritten > 0
  /\ "Notes" \in Range(upd.header_row)
  /\ "Personal Rating" \notin Range(upd.header_row)
  /\ "Personal Rating" \in upd.changed
  /\ \E k \in 1..upd.nWritten : upd.plan[k].field = "Watch Date" /\ upd.plan[k].col = 9

\* C4: when the write of one field fails, the writes of the remaining fields
\* are still attempted and the caller is told which fields were written.
C4_FailureDoesNotStopOthers ==
  (upd.done /\ upd.failed /\ upd.attempted >= 1) =>
    /\ upd.attempted = Len(upd.plan)
    /\ upd.reported # None

\* C5: a successful Update leaves no cached load result, and the load of
\* the next run executes the function body, within the cache lifetime too,
\* and returns the written values for the updated show when it loads it.
C5_SuccessfulUpdateInvalidatesCache ==
  /\ [](upd.done /\ ~upd.failed => cache = None)
  /\ [][(upd.done /\ ~upd.failed /\ pc = "idle" /\ run'.outcome = "returned" /\ pc' = "loaded") =>
          /\ run'.executed
          /\ upd.show \in DOMAIN shows' =>
               \A k \in 1..upd.nWritten :
                 shows'[upd.show].rows[upd.idx + 1][upd.plan[k].field] = upd.plan[k].value]_vars

\* C5 witness: a load right after a successful Update that wrote a cell,
\* run by executing the function body on a fresh cache entry, with the
\* updated show in its result.
C5_Witness ==
  /\ pc = "loaded"
  /\ run.afterWrite
  /\ run.executed
  /\ cacheAge < TTL
  /\ shows # EmptyMap

\* The worksheet of the store with the given title.
StoreSheet(t) == SheetNamed(spreadsheet, t)

\* The one-based column of name in a header that holds it.
HeaderColumn(header, name) == CHOOSE c \in DOMAIN header : header[c] = name

\* C6: every Episode Table a load returns has at least one row and the four
\* tracking columns in every row; a tracking column the sheet lacks holds its
\* default in every row (Watched "No", Favorite "No", Personal Rating and
\* Watch Date None) and one the sheet has holds the sheet's values.
C6_TablesPopulated ==
  (pc = "loaded" /\ run.outcome = "returned") =>
    \A t \in DOMAIN shows :
      LET df == shows[t]
          sheet == StoreSheet(t)
      IN /\ Len(df.rows) >= 1
         /\ Len(df.rows) = Len(sheet.rows)
         /\ \A f \in {"Watched", "Personal Rating", "Favorite", "Watch Date"} :
              /\ f \in Range(df.columns)
              /\ \A i \in DOMAIN df.rows :
                   /\ f \in DOMAIN df.rows[i]
                   /\ df.rows[i][f] =
                        IF f \in Range(sheet.header)
                        THEN sheet.rows[i][HeaderColumn(sheet.header, f)]
                        ELSE IF f \in {"Watched", "Favorite"} THEN "No" ELSE NoneVal

\* C6 witness: a loaded table of a sheet that has a Watched column of its
\* own, with a value that is not the default, and no Favorite column.
C6_Witness ==
  /\ pc = "loaded"
  /\ \E t \in DOMAIN shows :
       /\ "Watched" \in Range(StoreSheet(t).header)
       /\ "Favorite" \notin Range(StoreSheet(t).header)
       /\ shows[t].rows[2]["Watched"] = "In Progress"
       /\ shows[t].rows[2]["Favorite"] = "No"

\* C7: a sheet whose header is empty or lacks Show Name, and a sheet with a
\* qualifying header and no data row, is in neither mapping of the result;
\* the records of a sheet whose header does not qualify are never asked for.
C7_UnqualifiedSheetsSkipped ==
  (pc = "loaded" /\ run.outcome = "returned") =>
    \A k \in DOMAIN spreadsheet :
      LET sheet == spreadsheet[k]
          lacks == sheet.header = <<>> \/ "Show Name" \notin Range(sheet.header)
      IN /\ (lacks \/ sheet.rows = <<>>) =>
              sheet.title \notin DOMAIN shows /\ sheet.title \notin DOMAIN metadata
         /\ lacks => sheet.title \notin run.fetched

\* C7 witness: a load that ran over a store with a sheet whose header lacks
\* Show Name and a sheet with a qualifying header and no rows, whose records
\* were asked for.
C7_Witness ==
  /\ pc = "loaded"
  /\ run.executed
  /\ connection = "ok"
  /\ \E j, k \in DOMAIN spreadsheet :
       /\ spreadsheet[j].header # <<>>
       /\ "Show Name" \notin Range(spreadsheet[j].header)
       /\ spreadsheet[j].rows # <<>>
       /\ "Show Name" \in Range(spreadsheet[k].header)
       /\ spreadsheet[k].rows = <<>>
       /\ spreadsheet[k].title \in run.fetched

\* The store without the sheets whose calls raised in this run.
SheetsNotFailed == SelectSeq(spreadsheet, LAMBDA sh : sh.title \notin run.failed)

NoFault == [t \in TitlesOf(spreadsheet) |-> "none"]

\* C8: when a sheet's fetch raises during a load that runs over the
\* worksheets, the result is the result of loading the store without the
\* failing sheets, the failing sheets are in neither mapping, and exactly
\* the failing sheets are warned about.
C8_SheetFailureIsolated ==
  (pc = "loaded" /\ run.executed /\ connection = "ok") =>
    LET clean == LoadLoop(SheetsNotFailed, NoFault, EmptyLoad)
    IN /\ shows = clean.all_shows
       /\ metadata = clean.show_metadata
       /\ run.failed \cap (DOMAIN shows \cup DOMAIN metadata) = {}
       /\ run.warnings = run.failed

\* C8 witness: a load in which the first sheet raised and the sheet after it
\* was loaded.
C8_Witness ==
  /\ pc = "loaded"
  /\ run.executed
  /\ Len(spreadsheet) >= 2
  /\ spreadsheet[1].title \in run.failed
  /\ spreadsheet[2].title \in DOMAIN shows
  /\ spreadsheet[2].title \in DOMAIN metadata

\* C9: load_all_show_data never raises, and returns ({}, {}) when the
\* store cannot be reached or has no qualifying sheet.
C9_LoadNeverRaises ==
  /\ run.outcome # "raised"
  /\ (pc = "loaded" /\ run.executed
        /\ (connection = "none" \/ \A k \in DOMAIN spreadsheet : ~Qualifies(spreadsheet[k].header)))
       => shows = EmptyMap /\ metadata = EmptyMap

\* The column is missing from the sheet or none of its cells coerces.
NoSource(sheet, column, Coerces(_)) ==
  \/ column \notin Range(sheet.header)
  \/ \A i \in DOMAIN sheet.rows : ~Coerces(sheet.rows[i][HeaderColumn(sheet.header, column)])

HoldsMinutes(v) == v \in DOMAIN ExtractDigits \/ IsNumeric(v)

\* C10: in the metadata of a load, seasons, average_rating and
\* longest_episode are None whenever their source column (Season, Rating,
\* Runtime) is missing or holds no coercible value.
C10_DerivedFieldsNone ==
  pc = "loaded" =>
    \A t \in DOMAIN metadata :
      /\ NoSource(StoreSheet(t), "Season", IsNumeric) => metadata[t].seasons = None
      /\ NoSource(StoreSheet(t), "Rating", IsNumeric) => metadata[t].average_rating = None
      /\ NoSource(StoreSheet(t), "Runtime", HoldsMinutes) => metadata[t].longest_episode = None

\* The distinct cells of a column of a sheet.
DistinctCells(sheet, column) ==
  {sheet.rows[i][HeaderColumn(sheet.header, column)] : i \in DOMAIN sheet.rows}

\* C10 as amended: average_rating and longest_episode are None whenever
\* their source column is missing or holds no coercible value; seasons is
\* never None: it is 0 when the Season column is missing and the number of
\* distinct Season cells otherwise, coercible or not; no metadata
\* computation raises: every sheet with a qualifying header and rows whose
\* fetch did not fail has its metadata, and only the failed fetches are
\* warned about.
C10_DerivedFieldsAmended ==
  (pc = "loaded" /\ run.outcome = "returned") =>
    /\ \A t \in DOMAIN metadata :
         /\ NoSource(StoreSheet(t), "Rating", IsNumeric) => metadata[t].average_rating = None
         /\ NoSource(StoreSheet(t), "Runtime", HoldsMinutes) => metadata[t].longest_episode = None
         /\ metadata[t].seasons # None
         /\ "Season" \notin Range(StoreSheet(t).header) => metadata[t].seasons = Some(0)
         /\ "Season" \in Range(StoreSheet(t).header) =>
              metadata[t].seasons = Some(Cardinality(DistinctCells(StoreSheet(t), "Season")))
    /\ (run.executed /\ connection = "ok") =>
         /\ run.warnings = run.failed
         /\ \A k \in DOMAIN spreadsheet :
              (/\ "Show Name" \in Range(spreadsheet[k].header)
               /\ spreadsheet[k].rows # <<>>
               /\ spreadsheet[k].title \notin run.failed)
                => spreadsheet[k].title \in DOMAIN metadata

\* C10 witness: metadata computed for a sheet without a Season column
\* (seasons 0) and for a sheet whose Season, Rating and Runtime cells are all
\* empty or text (seasons 1, the other two None).
C10_Witness ==
  /\ pc = "loaded"
  /\ run.executed
  /\ \E t, u \in DOMAIN metadata :
       /\ "Season" \notin Range(StoreSheet(t).header)
       /\ metadata[t].seasons = Some(0)
       /\ metadata[t].average_rating # None
       /\ "Season" \in Range(StoreSheet(u).header)
       /\ NoSource(StoreSheet(u), "Season", IsNumeric)
       /\ "Rating" \in Range(StoreSheet(u).header)
       /\ metadata[u].seasons = Some(1)
       /\ metadata[u].average_rating = None
       /\ metadata[u].longest_episode = None

\* The Watch Date values the last Update wrote to the store.
WrittenDates ==
  {upd.plan[k].value : k \in {j \in 1..upd.nWritten : upd.plan[j].field = "Watch Date"}}

\* text is spelled MM-DD-YYYY: two digits, a dash, two digits, a dash, four
\* digits.
IsStorageForm(text) ==
  /\ text \in DOMAIN Chars
  /\ Len(Chars[text]) = 10
  /\ \A k \in 1..10 : IF k \in {3, 6} THEN Chars[text][k] = "-" ELSE IsDigit(Chars[text][k])

\* C11: every Watch Date an Update writes to the store is spelled
\* MM-DD-YYYY, whichever of the three formats the existing value was read in;
\* the read-side format list parses the stored value with its first format,
\* and to the date of the date widget: the date the existing value was read
\* as when the user left the widget alone, a picked date otherwise.
C11_WatchDateRoundTrip ==
  upd.done =>
    \A v \in WrittenDates :
      /\ IsStorageForm(v)
      /\ \E k \in 1..upd.nWritten :
           /\ upd.plan[k].field = "Watch Date"
           /\ Cell(UpdatedSheet, upd.sheet_row, upd.plan[k].col) = v
      /\ strptime(v, DateFormats[1]) # None
      /\ FirstParse(v, 1) = strptime(v, DateFormats[1])
      /\ FirstParse(v, 1) \subseteq {default_date(upd.shown)} \cup DatePicks
      /\ "Watch Date" \notin upd.changed => FirstParse(v, 1) = {default_date(upd.shown)}
      /\ ("Watch Date" \notin upd.changed /\ FirstParse(upd.shown["Watch Date"], 1) # None)
           => FirstParse(v, 1) = FirstParse(upd.shown["Watch Date"], 1)

\* C11 witness: an Update that left the date widget alone on an episode
\* whose stored date was read with the second format (year first) and wrote
\* it back month first.
C11_Witness ==
  /\ upd.done
  /\ "Watch Date" \notin upd.changed
  /\ upd.shown["Watch Date"] = "2024-03-15"
  /\ strptime(upd.shown["Watch Date"], DateFormats[1]) = None
  /\ WrittenDates = {"03-15-2024"}
  /\ \E c \in DOMAIN upd.header_row :
       upd.header_row[c] = "Watch Date" /\ Cell(UpdatedSheet, upd.sheet_row, c) = "03-15-2024"

\* The Update of the example: on the sheet "Breaking Bad", the episode at
\* position 1 of the loaded table, the Watched box ticked and 03/15/2024
\* picked as the date, nothing else touched, and no call failing.
ExampleUpdate ==
  /\ upd.done
  /\ ~upd.failed
  /\ upd.show = "Breaking Bad"
  /\ upd.idx = 1
  /\ upd.shown["Episode Title"] = "Cat's in the Bag..."
  /\ upd.shown["Watched"] = "No"
  /\ upd.changed = {"Watched", "Watch Date"}

ExampleHeader == <<"Show Name", "Season", "Episode", "Episode Title", "Rating">>

\* The cells of the example's row in the store; Watched, Watch Date are the
\* values expected in these columns when the header has them.
ExampleWrites(header) ==
  /\ upd.sheet_row = 3
  /\ \E c \in DOMAIN header : header[c] = "Watched" /\ Cell(UpdatedSheet, 3, c) = "Yes"
  /\ \E c \in DOMAIN header : header[c] = "Watch Date" /\ Cell(UpdatedSheet, 3, c) = "03-15-2024"
  /\ upd.reported = Some(<<"Watched", "Watch Date">>)

\* C12: applying {Watched: "Yes", WatchDate: "03/15/2024"} to position 1 of
\* the table loaded from the sheet "Breaking Bad" with header Show Name,
\* Season, Episode, Episode Title, Rating resolves to store row 3, writes
\* "Yes" to the Watched column and "03-15-2024" to the Watch Date column and
\* returns exactly the applied fields Watched, Watch Date.
C12_BreakingBadExample ==
  (ExampleUpdate /\ upd.header_row = ExampleHeader) => ExampleWrites(UpdatedSheet.header)

\* C12 as amended: the example resolves to store row 3; on the sheet with
\* the five-column header, which has no Watched and no Watch Date column, it
\* writes no cell and the applied fields are empty; on a sheet whose header
\* has the two columns as well it writes two cells, "Yes" and "03-15-2024"
\* under them in row 3, and the applied fields are exactly Watched, Watch
\* Date.
C12_BreakingBadAmended ==
  ExampleUpdate =>
    /\ upd.sheet_row = 3
    /\ upd.header_row = ExampleHeader =>
         /\ UpdatedSheet = Named("Breaking Bad", BreakingBad)
         /\ upd.nWritten = 0
         /\ upd.reported = Some(<<>>)
    /\ upd.header_row = ExampleHeader \o <<"Watched", "Watch Date">> =>
         /\ ExampleWrites(upd.header_row)
         /\ upd.nWritten = 2
         /\ {upd.plan[k].col : k \in 1..upd.nWritten} = {6, 7}

\* C12 witness: the example applied to the sheet that has the Watched and
\* Watch Date columns after the five of the example, both cells written.
C12_Witness ==
  /\ ExampleUpdate
  /\ upd.header_row = ExampleHeader \o <<"Watched", "Watch Date">>
  /\ upd.nWritten = 2
  /\ Cell(UpdatedSheet, 3, 6) = "Yes"
  /\ Cell(UpdatedSheet, 3, 7) = "03-15-2024"

\* The table of the tracker's selected show.
TrackedTable == shows[view.show]

\* The index labels of the tracker's filtered_df, as a set.
Shown == {view.index[k] : k \in DOMAIN view.index}

\* The season stage and the favorites stage of the filter on one record.
SeasonStage(r) == view.selected_seasons = {} \/ r["Season"] \in view.selected_seasons

FavoriteStage(r) == ~view.favorites_only \/ r["Favorite"] = "Yes"

\* The Watched values that coerce to true and to false.
TruthyValues == {"Yes", "YES", "yes", "TRUE", "true", "True", "1", TrueVal}

FalsyValues == {"No", "NO", "no", "FALSE", "false", "False", "0", FalseVal}

\* C13: the In Progress filter returns exactly the rows whose Watched is the
\* literal "In Progress" (among those the season and favorites stages let
\* through), each once; no row whose Watched coerces to true or false and no
\* row with an empty or unrecognized value is returned.
C13_InProgressLiteralOnly ==
  (pc = "tracked" /\ view.watch_status = "In Progress") =>
    /\ Shown = {i - 1 : i \in {j \in DOMAIN TrackedTable.rows :
                                 /\ TrackedTable.rows[j]["Watched"] = "In Progress"
                                 /\ SeasonStage(TrackedTable.rows[j])
                                 /\ FavoriteStage(TrackedTable.rows[j])}}
    /\ Len(view.index) = Cardinality(Shown)
    /\ \A idx \in Shown :
         TrackedTable.rows[idx + 1]["Watched"]
           \notin TruthyValues \cup FalsyValues \cup {"", NoneVal, "42", "maybe"}

\* C13 witness: the In Progress filter alone on the table that has Watched
\* in every spelling, returning its one In Progress row.
C13_Witness ==
  /\ pc = "tracked"
  /\ view.show = "Flags"
  /\ view.watch_status = "In Progress"
  /\ ~view.favorites_only
  /\ {TrackedTable.rows[i]["Watched"] : i \in DOMAIN TrackedTable.rows}
       = {"Yes", "YES", "true", TrueVal, "1", "TRUE", "No", "FALSE", FalseVal, "0",
          "In Progress", "", NoneVal, "42", "maybe"}
  /\ view.index = <<10>>

\* The watch-status stage of the filter on one record, by the spellings of
\* Watched.
StatusStage(r) ==
  CASE view.watch_status = "Watched"     -> r["Watched"] \in TruthyValues
    [] view.watch_status = "Unwatched"   -> r["Watched"] \in FalsyValues
    [] view.watch_status = "In Progress" -> r["Watched"] = "In Progress"
    [] OTHER                             -> TRUE

\* The index labels of the rows the other two stages let through.
PassOtherStages ==
  {i - 1 : i \in {j \in DOMAIN TrackedTable.rows :
                    StatusStage(TrackedTable.rows[j]) /\ FavoriteStage(TrackedTable.rows[j])}}

\* C14: with a non-empty selection the season filter keeps exactly the rows
\* whose Season is selected; with no selection (None for a table without a
\* Season column, or the empty set) it restricts nothing: every row the other
\* stages let through is returned, and with no other filter set the whole
\* table is.
C14_SeasonFilter ==
  pc = "tracked" =>
    /\ view.selected_seasons # {} =>
         Shown = {idx \in PassOtherStages :
                    TrackedTable.rows[idx + 1]["Season"] \in view.selected_seasons}
    /\ view.selected_seasons = {} =>
         /\ Shown = PassOtherStages
         /\ (view.watch_status = "All" /\ ~view.favorites_only) =>
              Shown = {i - 1 : i \in DOMAIN TrackedTable.rows}

\* C14 witness: a table with a Season column of two seasons, every season
\* deselected and no other filter set, and all its rows returned.
C14_Witness ==
  /\ pc = "tracked"
  /\ HasColumn(TrackedTable, "Season")
  /\ Cardinality(all_seasons(TrackedTable)) >= 2
  /\ view.selected_seasons = {}
  /\ view.watch_status = "All"
  /\ ~view.favorites_only
  /\ Len(view.index) = Len(TrackedTable.rows)
  /\ Len(view.index) >= 3

\* (Season, Episode) of the row with index label idx, as numbers.
SortKey(idx) ==
  <<NumTenths[TrackedTable.rows[idx + 1]["Season"]],
    NumTenths[TrackedTable.rows[idx + 1]["Episode"]]>>

KeyBefore(a, b) == a[1] < b[1] \/ (a[1] = b[1] /\ a[2] < b[2])

\* C15: the filter result holds exactly the rows matching all active
\* filters, each once; when the table has a Season and an Episode column the
\* rows are in ascending (Season, Episode) order with rows of equal key in
\* load order, and otherwise they are in load order.
C15_FilterResultOrdered ==
  pc = "tracked" =>
    /\ Shown = {i - 1 : i \in {j \in DOMAIN TrackedTable.rows :
                                 /\ SeasonStage(TrackedTable.rows[j])
                                 /\ StatusStage(TrackedTable.rows[j])
                                 /\ FavoriteStage(TrackedTable.rows[j])}}
    /\ Len(view.index) = Cardinality(Shown)
    /\ \A a, b \in DOMAIN view.index :
         a < b =>
           IF HasColumn(TrackedTable, "Season") /\ HasColumn(TrackedTable, "Episode")
           THEN \/ KeyBefore(SortKey(view.index[a]), SortKey(view.index[b]))
                \/ /\ SortKey(view.index[a]) = SortKey(view.index[b])
                   /\ view.index[a] < view.index[b]
           ELSE view.index[a] < view.index[b]

\* C15 witness: the unfiltered view of a table loaded out of order, with
\* two pairs of rows of equal (Season, Episode) and a season 10 that sorts
\* after season 2.
C15_Witness ==
  /\ pc = "tracked"
  /\ view.show = "Dups"
  /\ view.index = <<2, 4, 0, 3, 1>>
  /\ SortKey(2) = SortKey(4)
  /\ SortKey(0) = SortKey(3)

\* The rows the progress of show t on the rendered page is counted over:
\* the whole table on the overview, filtered_df on the tracker.
ProgressRows(t) ==
  IF page.name = "tracker" THEN [k \in DOMAIN view.index |-> shows[t].rows[view.index[k] + 1]]
  ELSE shows[t].rows

\* C16: watch progress counts as watched exactly the rows whose Watched
\* coerces to true, as in progress exactly the rows with the literal
\* "In Progress", and as total every row; percent is 100 * watched / total,
\* and 0, with no division by zero, when the table has no row: over an empty
\* table the result is (0, 0, 0, 0).  The overview computes it for every
\* show, the tracker for the selected show unless no row passes the filters.
C16_WatchProgress ==
  (pc \in {"shown", "tracked"} /\ page.name \in {"overview", "tracker"}) =>
    /\ page.name = "overview" => DOMAIN page.progress = DOMAIN shows
    /\ page.name = "tracker" =>
         DOMAIN page.progress = IF view.index = <<>> THEN {} ELSE {view.show}
    /\ \A t \in DOMAIN page.progress :
         LET rows == ProgressRows(t)
             p    == page.progress[t]
         IN /\ p.watched_count =
                 Cardinality({i \in DOMAIN rows : rows[i]["Watched"] \in TruthyValues})
            /\ p.in_progress =
                 Cardinality({i \in DOMAIN rows : rows[i]["Watched"] = "In Progress"})
            /\ p.total_count = Len(rows)
            /\ p.progress_pct.den # 0
            /\ p.progress_pct.num * p.total_count = 100 * p.watched_count * p.progress_pct.den
            /\ rows = <<>> =>
                 /\ p.watched_count = 0
                 /\ p.in_progress = 0
                 /\ p.total_count = 0
                 /\ p.progress_pct.num = 0

\* C16 witness: the overview of an empty table, with progress (0, 0, 0, 0),
\* next to the table that has Watched in every spelling, with six rows
\* watched and one in progress of fifteen.
C16_Witness ==
  /\ pc = "shown"
  /\ page.name = "overview"
  /\ DOMAIN page.progress = {"Empty", "Flags"}
  /\ shows["Empty"].rows = <<>>
  /\ page.progress["Empty"] =
       [watched_count |-> 0, in_progress |-> 0, total_count |-> 0,
        progress_pct |-> [num |-> 0, den |-> 1]]
  /\ page.progress["Flags"].watched_count = 6
  /\ page.progress["Flags"].in_progress = 1
  /\ page.progress["Flags"].total_count = 15
  /\ page.progress["Flags"].progress_pct = [num |-> 600, den |-> 15]

\* The rows of show t in season s whose Rating coerces to a number.
RatedRows(t, s) ==
  {i \in DOMAIN shows[t].rows :
     shows[t].rows[i]["Season"] = s /\ IsNumeric(shows[t].rows[i]["Rating"])}

RECURSIVE SumTenths(_, _)
SumTenths(t, rowset) ==
  IF rowset = {} THEN 0
  ELSE LET i == CHOOSE x \in rowset : TRUE
       IN NumTenths[shows[t].rows[i]["Rating"]] + SumTenths(t, rowset \ {i})

\* C17: the season rating rollup has one entry per season with at least one
\* coercible Rating, holding the mean of that season's coercible ratings; a
\* season all of whose ratings are empty or non-numeric has no entry: it is
\* neither zeroed nor listed with an empty value.
C17_RollupOmitsUnratedSeasons ==
  (pc = "shown" /\ page.name \in {"details", "analysis"}) =>
    \A t \in DOMAIN page.rollup :
      /\ DOMAIN page.rollup[t] =
           {s \in {shows[t].rows[i]["Season"] : i \in DOMAIN shows[t].rows} : RatedRows(t, s) # {}}
      /\ \A s \in DOMAIN page.rollup[t] :
           /\ page.rollup[t][s] # None
           /\ \A mean \in page.rollup[t][s] :
                /\ mean.den = Cardinality(RatedRows(t, s))
                /\ mean.num = SumTenths(t, RatedRows(t, s))

\* The formats, by place in the read-side list, that parse a Watch Date.
ParsingFormats(v) == {k \in DOMAIN DateFormats : strptime(v, DateFormats[k]) # None}

\* The records of all shows whose Watch Date parses under one of the
\* formats.
DatedRecords ==
  {<<t, i>> \in UNION {{u} \X DOMAIN shows[u].rows : u \in DOMAIN shows} :
     ParsingFormats(shows[t].rows[i]["Watch Date"]) # {}}

\* The weekday and the month of the dates the tables of PageSheets hold, by
\* the calendar.
CalendarFacts ==
  ([Y |-> 2024, m |-> 1, d |-> 2]   :> <<"Tuesday", "January">>) @@
  ([Y |-> 2024, m |-> 3, d |-> 5]   :> <<"Tuesday", "March">>) @@
  ([Y |-> 2024, m |-> 3, d |-> 15]  :> <<"Friday", "March">>) @@
  ([Y |-> 2026, m |-> 11, d |-> 5]  :> <<"Thursday", "November">>)

RECURSIVE SumCounts(_)
SumCounts(histogram) ==
  IF histogram = <<>> THEN 0 ELSE Head(histogram).count + SumCounts(Tail(histogram))

\* histogram lists exactly the names, each once and in their order, with the
\* number of calendar dates whose fact at place f is the name.
CompleteHistogram(histogram, names, f) ==
  /\ Len(histogram) = Len(names)
  /\ \A k \in DOMAIN names :
       /\ histogram[k].name = names[k]
       /\ histogram[k].count =
            Cardinality({e \in page.all_watch_dates : CalendarFacts[e.date][f] = names[k]})
  /\ \A j, k \in DOMAIN names : j # k => names[j] # names[k]
  /\ SumCounts(histogram) = Cardinality(page.all_watch_dates)

\* C18: the viewing calendar holds exactly one date for each record, across
\* all shows, whose Watch Date parses under one of the three formats (the
\* date of the first format that parses it) and none for an empty, None or
\* unparseable value; the day-of-week histogram built from it has exactly the
\* 7 weekdays and the month histogram exactly the 12 months, with 0 for a day
\* or month without a match, and the counts of each sum to the number of
\* parsed dates.  The page builds the histograms whenever a date parsed.
C18_ViewingCalendar ==
  (pc = "shown" /\ page.name = "analysis") =>
    /\ {<<e.show, e.idx + 1>> : e \in page.all_watch_dates} = DatedRecords
    /\ Cardinality(page.all_watch_dates) = Cardinality(DatedRecords)
    /\ \A e \in page.all_watch_dates :
         LET v == shows[e.show].rows[e.idx + 1]["Watch Date"]
             first == CHOOSE k \in ParsingFormats(v) : \A j \in ParsingFormats(v) : k <= j
         IN /\ v \notin {"", NoneVal}
            /\ {e.date} = strptime(v, DateFormats[first])
    /\ page.all_watch_dates # {} <=> page.day_data # <<>>
    /\ page.all_watch_dates # {} <=> page.month_data # <<>>
    /\ page.day_data # <<>> =>
         /\ Len(page.day_data) = 7
         /\ CompleteHistogram(page.day_data,
              <<"Monday", "Tuesday", "Wednesday", "Thursday", "Friday", "Saturday", "Sunday">>, 1)
    /\ page.month_data # <<>> =>
         /\ Len(page.month_data) = 12
         /\ CompleteHistogram(page.month_data,
              <<"January", "February", "March", "April", "May", "June", "July", "August",
                "September", "October", "November", "December">>, 2)

\* C18 witness: the analysis of two shows with dates in all three formats,
\* two records of the same day, an impossible date, a word and empty cells:
\* four dates, two on a Tuesday, one on a Thursday, one on a Friday, none on
\* the other days; three in March and one in November.
C18_Witness ==
  /\ pc = "shown"
  /\ page.name = "analysis"
  /\ DOMAIN shows = {"Dups", "Lost"}
  /\ {<<e.show, e.idx>> : e \in page.all_watch_dates}
       = {<<"Dups", 0>>, <<"Dups", 3>>, <<"Dups", 4>>, <<"Lost", 1>>}
  /\ [k \in 1..7 |-> page.day_data[k].count] = <<0, 2, 0, 1, 1, 0, 0>>
  /\ page.month_data[3].count = 3
  /\ page.month_data[11].count = 1
  /\ page.month_data[1].count = 0

\* The index labels the filter returns for the tracker's table with the
\* season and favorites settings of the view and the given watch status.
FilterResult(watch_status) ==
  {idx \in 0..(Len(TrackedTable.rows) - 1) :
     \E k \in DOMAIN FilteredIndex(TrackedTable, view.selected_seasons, watch_status,
                                   view.favorites_only) :
        FilteredIndex(TrackedTable, view.selected_seasons, watch_status,
                      view.favorites_only)[k] = idx}

\* What each of the inputs of the coercion is to be classified as.
ExpectedClass ==
  ("Yes" :> "True") @@ ("YES" :> "True") @@ ("true" :> "True") @@ (TrueVal :> "True") @@
  ("1" :> "True") @@
  ("No" :> "False") @@ ("FALSE" :> "False") @@ (FalseVal :> "False") @@ ("0" :> "False") @@
  ("In Progress" :> "Unknown") @@ ("" :> "Unknown") @@ (NoneVal :> "Unknown") @@
  ("42" :> "Unknown")

\* C19: the coercion of Watched puts every value in exactly one of True,
\* False and Unknown, without raising: for every table the rows the Watched
\* filter returns and the rows the Unwatched filter returns are disjoint,
\* neither holds a row whose Watched is "In Progress", and each of the
\* listed inputs is returned by the Watched filter exactly when it is to be
\* True and by the Unwatched filter exactly when it is to be False.
C19_CoercionTotalSingleValued ==
  pc = "tracked" =>
    /\ view.watch_status = "Watched" => Shown = FilterResult("Watched")
    /\ view.watch_status = "Unwatched" => Shown = FilterResult("Unwatched")
    /\ FilterResult("Watched") \cap FilterResult("Unwatched") = {}
    /\ \A idx \in FilterResult("Watched") \cup FilterResult("Unwatched") :
         TrackedTable.rows[idx + 1]["Watched"] # "In Progress"
    /\ \A i \in DOMAIN TrackedTable.rows :
         LET r == TrackedTable.rows[i]
         IN (r["Watched"] \in DOMAIN ExpectedClass /\ SeasonStage(r) /\ FavoriteStage(r)) =>
              /\ i - 1 \in FilterResult("Watched") <=> ExpectedClass[r["Watched"]] = "True"
              /\ i - 1 \in FilterResult("Unwatched") <=> ExpectedClass[r["Watched"]] = "False"

\* C19 witness: the Unwatched filter on the table that has all the listed
\* inputs, returning the four rows that coerce to false while the Watched
\* filter returns the six that coerce to true.
C19_Witness ==
  /\ pc = "tracked"
  /\ view.show = "Flags"
  /\ view.watch_status = "Unwatched"
  /\ ~view.favorites_only
  /\ DOMAIN ExpectedClass \subseteq {TrackedTable.rows[i]["Watched"] : i \in DOMAIN TrackedTable.rows}
  /\ view.index = <<6, 7, 8, 9>>
  /\ FilterResult("Watched") = {0, 1, 2, 3, 4, 5}

\* The data rows of a sheet whose Rating cell is a number or a numeric
\* string.
RatedCells(sheet) ==
  {i \in DOMAIN sheet.rows : IsNumeric(sheet.rows[i][HeaderColumn(sheet.header, "Rating")])}

RECURSIVE SumRatings(_, _)
SumRatings(sheet, rowset) ==
  IF rowset = {} THEN 0
  ELSE LET i == CHOOSE x \in rowset : TRUE
       IN NumTenths[sheet.rows[i][HeaderColumn(sheet.header, "Rating")]]
          + SumRatings(sheet, rowset \ {i})

\* C20: the average rating of a loaded table is the mean over the rows whose
\* Rating is numeric or a numeric string only: a row with an empty or
\* non-numeric Rating is in neither the sum nor the count; when no row has a
\* coercible Rating, a Rating column of empty strings included, it is None,
\* not 0.  safe_numeric_mean of the table's Rating column is the same value.
C20_AverageRating ==
  (pc = "loaded" /\ run.outcome = "returned") =>
    \A t \in DOMAIN metadata :
      "Rating" \in Range(StoreSheet(t).header) =>
        LET sheet == StoreSheet(t)
            rated == RatedCells(sheet)
            mean  == safe_numeric_mean(Column(shows[t], "Rating"))
        IN /\ rated = {} => metadata[t].average_rating = None /\ mean = None
           /\ rated # {} =>
                /\ metadata[t].average_rating =
                     Some([sum |-> SumRatings(sheet, rated), n |-> Cardinality(rated)])
                /\ mean = Some([num |-> SumRatings(sheet, rated), den |-> Cardinality(rated)])

\* C20 witness: a load of a sheet whose Rating column is empty strings
\* only, average None, and of a sheet with an empty Rating between an 8 and a
\* 9, average 17 / 2.
C20_Witness ==
  /\ pc = "loaded"
  /\ run.executed
  /\ \E t, u \in DOMAIN metadata :
       /\ "Rating" \in Range(StoreSheet(t).header)
       /\ \A i \in DOMAIN shows[t].rows : shows[t].rows[i]["Rating"] = ""
       /\ metadata[t].average_rating = None
       /\ Len(shows[u].rows) = 3
       /\ shows[u].rows[2]["Rating"] = ""
       /\ metadata[u].average_rating = Some([sum |-> 170, n |-> 2])

\* The tables a load hands to main agree with every cell the last Update
\* wrote, for the updated show when the result has it.
AgreesWithWrites(tables) ==
  upd.show \in DOMAIN tables =>
    \A k \in 1..upd.nWritten :
      tables[upd.show].rows[upd.idx + 1][upd.plan[k].field] = upd.plan[k].value

\* C21: whenever an Update wrote at least one cell, a later write of the
\* same Update having failed or not, the load of the next run is not served
\* from the entry cached before the Update: it executes the function body,
\* and the table it returns agrees with every cell the Update wrote.
C21_WritesInvalidateCache ==
  [][(upd.done /\ upd.nWritten > 0 /\ pc = "idle" /\ pc' = "loaded") =>
       /\ run'.executed
       /\ AgreesWithWrites(shows')]_vars

\* C22: after every load that returned, whatever the store holds and
\* whichever sheets failed, shows and metadata have the same keys, and each
\* show's total_episodes is the number of rows of its table.
C22_ShowsAndMetadataAligned ==
  (pc = "loaded" /\ run.outcome = "returned") =>
    /\ DOMAIN shows = DOMAIN metadata
    /\ \A t \in DOMAIN shows : metadata[t].total_episodes = Len(shows[t].rows)

\* C22 witness: a load that ran over two worksheets, one whose fetch raised
\* and one that was loaded with three rows, so that the result has a table
\* and metadata for one sheet of the store and neither for the other.
C22_Witness ==
  /\ pc = "loaded"
  /\ run.executed
  /\ Len(spreadsheet) = 2
  /\ \E j, k \in DOMAIN spreadsheet :
       /\ spreadsheet[j].title \in run.failed
       /\ spreadsheet[j].title \notin DOMAIN shows \cup DOMAIN metadata
       /\ spreadsheet[k].title \in DOMAIN shows \cap DOMAIN metadata
       /\ Len(shows[spreadsheet[k].title].rows) = 3
       /\ metadata[spreadsheet[k].title].total_episodes = 3

====
